---- MODULE Spec2Model ----
(***************************************************************************)
(* Model of transbigdata/busgps.py: busgps_arriveinfo (trajectory          *)
(* matching, dwell detection, dwell merging) and busgps_onewaytime         *)
(* (pairing of dwell events into one-way trips).                           *)
(*                                                                         *)
(* Elapsed seconds are floats in the code; here they are integers counted  *)
(* in ticks, TicksPerSecond ticks to a second, so that the truncation      *)
(* int(r) of lines 207-212 is a real conversion (t \div TicksPerSecond).   *)
(* Timestamps of busgps_onewaytime are whole numbers.                      *)
(***************************************************************************)
EXTENDS Integers, Sequences, FiniteSets, TLC

VARIABLES
    raw,          \* dwell merge: raw visits of one (vehicle, stop), lines 179-183
    order,        \* dwell merge: the permutation sort_values(by='time') produces, line 191
    merged,       \* dwell merge: threshold mintime |-> outcome of lines 185-212
    arrive_info,  \* onewaytime: the input table of dwell events
    col,          \* onewaytime: the configured column names
    onewaytime,   \* onewaytime: the outcome of the call (lines 248-290), once made
    data,         \* matching: the cleaned fix table, line 97
    project,      \* matching: the table with its 'project' column, line 140
    method,       \* run: the method argument
    hasproject,   \* run: whether the data carries a 'project' column
    fixes,        \* run: vehicle |-> number of cleaned fixes
    visits,       \* run: <<vehicle, stop>> |-> raw visits of the corridor intersection
    mintime,      \* run: the mintime argument
    pc,           \* run: position in busgps_arriveinfo
    todo,         \* run: vehicles the loop of line 153 has still to process
    ls,           \* run: the list of per-(vehicle, stop) frames, line 151
    outcome       \* run: what the call returned or raised

vars == <<raw, order, merged, arrive_info, col, onewaytime, data, project,
          method, hasproject, fixes, visits, mintime, pc, todo, ls, outcome>>

mergeVars == <<raw, order, merged>>
tripVars == <<arrive_info, col, onewaytime>>
matchVars == <<data, project>>
runVars == <<method, hasproject, fixes, visits, mintime, pc, todo, ls, outcome>>

(***************************************************************************)
(* Bounds.                                                                 *)
(***************************************************************************)
TicksPerSecond == 2
MaxTick == 5
MaxVisits == 3
MaxMintime == 3
MaxRows == 4
MaxFixes == 3
MaxRunTick == 1

Min(S) == CHOOSE x \in S : \A y \in S : x <= y
Range(f) == {f[i] : i \in DOMAIN f}

(***************************************************************************)
(* Dwell merging, busgps_arriveinfo lines 179-212.                         *)
(***************************************************************************)

\* Raw visits: the connected pieces of the trajectory/corridor intersection,
\* arrivetime = first time coordinate, leavetime = last time coordinate.
\* A piece may be a single instant; distinct pieces are disjoint in time.
RECURSIVE VisitsFrom(_, _)
VisitsFrom(n, lo) ==
    IF n = 0 THEN {<<>>}
    ELSE UNION {{<<[arrivetime |-> v[1], leavetime |-> v[2]]>> \o rest :
                    rest \in VisitsFrom(n - 1, v[2] + 1)} :
                v \in {w \in (lo..MaxTick) \X (lo..MaxTick) : w[1] <= w[2]}}

RawVisits == UNION {VisitsFrom(n, 0) : n \in 1..MaxVisits}

\* pd.concat([a, b]): the arrivals flagged 1, then the departures flagged 0.
ConcatAB(arrive) ==
    [i \in 1..(2 * Len(arrive)) |->
        IF i <= Len(arrive)
        THEN [time |-> arrive[i].arrivetime, flag |-> 1]
        ELSE [time |-> arrive[i - Len(arrive)].leavetime, flag |-> 0]]

\* sort_values(by='time') sorts on one key with the default kind 'quicksort',
\* which is not stable: rows of equal time come out in an order the sort does
\* not specify.  Every time-sorted permutation of the rows is a possible one.
RECURSIVE SortOrders(_, _)
SortOrders(c, idx) ==
    IF idx = {} THEN {<<>>}
    ELSE LET tmin == Min({c[i].time : i \in idx})
         IN UNION {{<<i>> \o rest : rest \in SortOrders(c, idx \ {i})} :
                   i \in {j \in idx : c[j].time = tmin}}

SortValuesByTime(c) == SortOrders(c, DOMAIN c)

\* Mutant of DwellMerge: the departures are taken from b (the unfiltered
\* departures) instead of the surviving rows of c.
DwellMergeLeaveFromB(arrive, mt, ord) ==
    LET ab == ConcatAB(arrive)
        N == Len(ab)
        c == [i \in 1..N |-> ab[ord[i]]]
        flag_1 == [i \in 1..N |->
                      /\ i < N
                      /\ c[i + 1].time - c[i].time < mt
                      /\ c[i].flag = 0]
        flag_2 == [i \in 1..N |-> i > 1 /\ flag_1[i - 1]]
        c3 == [i \in 1..N |-> [time |-> c[i].time, flag |-> c[i].flag,
                               flag_3 |-> flag_1[i] \/ flag_2[i]]]
        kept == SelectSeq(c3, LAMBDA r : ~r.flag_3)
        arr == SelectSeq(kept, LAMBDA r : r.flag = 1)
    IN [ok |-> TRUE,
        arrive_new |-> [i \in 1..Len(arr) |->
            [arrivetime |-> arr[i].time, leavetime |-> arrive[i].leavetime]]]

\* Mutant of DwellMerge: the comparison of line 193 reversed (gap > mintime).
DwellMergeGapAbove(arrive, mt, ord) ==
    LET ab == ConcatAB(arrive)
        N == Len(ab)
        c == [i \in 1..N |-> ab[ord[i]]]
        flag_1 == [i \in 1..N |->
                      /\ i < N
                      /\ c[i + 1].time - c[i].time > mt
                      /\ c[i].flag = 0]
        flag_2 == [i \in 1..N |-> i > 1 /\ flag_1[i - 1]]
        c3 == [i \in 1..N |-> [time |-> c[i].time, flag |-> c[i].flag,
                               flag_3 |-> flag_1[i] \/ flag_2[i]]]
        kept == SelectSeq(c3, LAMBDA r : ~r.flag_3)
        arr == SelectSeq(kept, LAMBDA r : r.flag = 1)
        lea == SelectSeq(kept, LAMBDA r : r.flag = 0)
    IN IF Len(arr) # Len(lea)
       THEN [ok |-> FALSE, arrive_new |-> <<>>]
       ELSE [ok |-> TRUE,
             arrive_new |-> [i \in 1..Len(arr) |->
                 [arrivetime |-> arr[i].time, leavetime |-> lea[i].time]]]

\* Lines 185-200: flag every departure followed within mintime by the next
\* row, drop it and the row after it, pair the survivors by position.
\* ok = FALSE is the ValueError of line 200 (lengths differ).
DwellMerge(arrive, mt, ord) ==
    LET ab == ConcatAB(arrive)
        N == Len(ab)
        c == [i \in 1..N |-> ab[ord[i]]]
        flag_1 == [i \in 1..N |->
                      /\ i < N
                      /\ c[i + 1].time - c[i].time < mt
                      /\ c[i].flag = 0]
        flag_2 == [i \in 1..N |-> i > 1 /\ flag_1[i - 1]]
        flag_3 == [i \in 1..N |-> flag_1[i] \/ flag_2[i]]
        c3 == [i \in 1..N |-> [time |-> c[i].time, flag |-> c[i].flag,
                               flag_3 |-> flag_3[i]]]
        kept == SelectSeq(c3, LAMBDA r : ~r.flag_3)
        arr == SelectSeq(kept, LAMBDA r : r.flag = 1)
        lea == SelectSeq(kept, LAMBDA r : r.flag = 0)
    IN IF Len(arr) # Len(lea)
       THEN [ok |-> FALSE, arrive_new |-> <<>>]
       ELSE [ok |-> TRUE,
             arrive_new |-> [i \in 1..Len(arr) |->
                 [arrivetime |-> arr[i].time, leavetime |-> lea[i].time]]]

\* Lines 207-212: starttime + Timedelta(int(r), unit='s'); starttime is the
\* epoch 0 here, int() truncates the elapsed seconds to whole seconds.
Timestamps(rows) ==
    [i \in 1..Len(rows) |->
        [arrivetime |-> rows[i].arrivetime \div TicksPerSecond,
         leavetime |-> rows[i].leavetime \div TicksPerSecond]]

\* The dwell events of one (vehicle, stop) for threshold mt.
ArriveInfo(arrive, mt, ord) ==
    LET r == DwellMerge(arrive, mt, ord)
    IN [ok |-> r.ok, arrive_new |-> r.arrive_new,
        arrive_info |-> Timestamps(r.arrive_new)]

\* The thresholds a call may be given (ticks).
Mintimes == 0..MaxMintime

\* One run of the dwell detection of lines 179-212 on the raw visits, with
\* threshold mt.  The same rows sort the same way in every run.
ArriveMerge(mt) ==
    /\ mt \notin DOMAIN merged
    /\ merged' = merged @@ (mt :> ArriveInfo(raw, mt, order))
    /\ UNCHANGED <<raw, order>>

\* Variables of the other operations, at rest.
IdleMerge == raw = <<>> /\ order = <<>> /\ merged = <<>>
IdleTrip == arrive_info = <<>> /\ col = <<>> /\ onewaytime = <<>>
IdleMatch == data = <<>> /\ project = <<>>
IdleRun ==
    /\ method = "" /\ hasproject = FALSE /\ fixes = <<>> /\ visits = <<>>
    /\ mintime = 0 /\ pc = "" /\ todo = <<>> /\ ls = <<>> /\ outcome = <<>>

InitMerge ==
    /\ raw \in RawVisits
    /\ order \in SortValuesByTime(ConcatAB(raw))
    /\ merged = <<>>
    /\ IdleTrip /\ IdleMatch /\ IdleRun

NextMerge ==
    \E mt \in Mintimes :
        ArriveMerge(mt) /\ UNCHANGED <<tripVars, matchVars, runVars>>

SpecMerge == InitMerge /\ [][NextMerge]_vars

(***************************************************************************)
(* Trip aggregation, busgps_onewaytime lines 219-290.                      *)
(***************************************************************************)

Vehicles == {1, 2}
Stops == <<"A", "B">>
\* The timestamps of the dwell events (whole seconds).
Stamps == 0..1
StopNames == {Stops[i] : i \in DOMAIN Stops}

\* The default col of line 220, and a caller's col naming the time columns
\* differently (the table then has no 'arrivetime'/'leavetime' column).
DefaultCol == <<"VehicleId", "stopname", "arrivetime", "leavetime">>
CustomCol == <<"VehicleId", "stopname", "arrive", "leave">>
Cols == {DefaultCol, CustomCol}

\* A dwell event as a table row keyed by the column names of c.
Row(c, v, s, a, d) == (c[1] :> v) @@ (c[2] :> s) @@ (c[3] :> a) @@ (c[4] :> d)

\* Dwell events <<vehicle, stop index, arrival, departure>>, arrival <= departure.
Events ==
    {e \in Vehicles \X (DOMAIN Stops) \X Stamps \X Stamps :
        e[3] <= e[4]}

EventKey(e) ==
    ((e[1] * (Len(Stops) + 1) + e[2]) * Cardinality(Stamps) + e[3])
        * Cardinality(Stamps) + e[4]

\* Tables of n dwell events.  The result of busgps_onewaytime depends
\* on the rows of the table and not on their order (the sort of line 261
\* compares whole rows of c up to ties between equal rows), so one order per
\* multiset of rows is enumerated.
RECURSIVE EventLists(_)
EventLists(n) ==
    IF n = 0 THEN {<<>>}
    ELSE {Append(p[1], p[2]) :
             p \in {q \in EventLists(n - 1) \X Events :
                       q[1] = <<>> \/ EventKey(q[1][Len(q[1])]) <= EventKey(q[2])}}

Frame(c, evs) ==
    [i \in 1..Len(evs) |-> Row(c, evs[i][1], Stops[evs[i][2]], evs[i][3], evs[i][4])]

\* arrive_info[arrive_info[stopname] == stop][[timecol, stopname, VehicleId]]
\* with the columns renamed ['time', stopname, VehicleId] (lines 251-257).
SelectStop(table, c, stop, timecol) ==
    LET rows == SelectSeq(table, LAMBDA r : r[c[2]] = stop)
    IN [i \in 1..Len(rows) |->
           [time |-> rows[i][timecol], stopname |-> rows[i][c[2]],
            VehicleId |-> rows[i][c[1]]]]

\* sort_values(by=[VehicleId, 'time']): a sort on two keys, which pandas does
\* with a stable lexsort: rows of equal keys keep the order of the concat.
KeyLess(x, y) ==
    \/ x.VehicleId < y.VehicleId
    \/ x.VehicleId = y.VehicleId /\ x.time < y.time

SortByVehicleTime(c) ==
    LET rank(i) == Cardinality({j \in DOMAIN c :
                        \/ KeyLess(c[j], c[i])
                        \/ ~KeyLess(c[i], c[j]) /\ j < i})
    IN [p \in DOMAIN c |-> c[CHOOSE i \in DOMAIN c : rank(i) = p - 1]]

\* Mutant of OneWay: the row's vehicle is not compared with the next row's.
OneWayAnyVehicle(a, b, from, to) ==
    LET c == SortByVehicleTime(a \o b)
        idx == {i \in 1..(Len(c) - 1) :
                   /\ c[i].stopname = from
                   /\ c[i + 1].stopname = to}
        pos == [k \in 1..Cardinality(idx) |->
                   CHOOSE i \in idx : Cardinality({j \in idx : j < i}) = k - 1]
    IN [k \in 1..Cardinality(idx) |->
           [VehicleId |-> c[pos[k]].VehicleId,
            time |-> c[pos[k]].time,
            time1 |-> c[pos[k] + 1].time,
            duration |-> c[pos[k] + 1].time - c[pos[k]].time,
            direction |-> <<from, to>>]]

\* Mutant of OneWay: the departures are concatenated before the arrivals.
OneWayConcatBA(a, b, from, to) ==
    LET c == SortByVehicleTime(b \o a)
        idx == {i \in 1..(Len(c) - 1) :
                   /\ c[i].VehicleId = c[i + 1].VehicleId
                   /\ c[i].stopname = from
                   /\ c[i + 1].stopname = to}
        pos == [k \in 1..Cardinality(idx) |->
                   CHOOSE i \in idx : Cardinality({j \in idx : j < i}) = k - 1]
    IN [k \in 1..Cardinality(idx) |->
           [VehicleId |-> c[pos[k]].VehicleId,
            time |-> c[pos[k]].time,
            time1 |-> c[pos[k] + 1].time,
            duration |-> c[pos[k] + 1].time - c[pos[k]].time,
            direction |-> <<from, to>>]]

\* Mutant of OneWay: the next row's stop is not compared with the destination.
OneWayNoEndCheck(a, b, from, to) ==
    LET c == SortByVehicleTime(a \o b)
        idx == {i \in 1..(Len(c) - 1) :
                   /\ c[i].VehicleId = c[i + 1].VehicleId
                   /\ c[i].stopname = from}
        pos == [k \in 1..Cardinality(idx) |->
                   CHOOSE i \in idx : Cardinality({j \in idx : j < i}) = k - 1]
    IN [k \in 1..Cardinality(idx) |->
           [VehicleId |-> c[pos[k]].VehicleId,
            time |-> c[pos[k]].time,
            time1 |-> c[pos[k] + 1].time,
            duration |-> c[pos[k] + 1].time - c[pos[k]].time,
            direction |-> <<from, to>>]]

\* Lines 259-270 (and 279-287): the stream of arrivals at `to` and departures
\* from `from`, sorted; a row is kept when the next row is of the same vehicle,
\* the row's stop is `from` and the next row's stop is `to`.
OneWay(a, b, from, to) ==
    LET c == SortByVehicleTime(a \o b)
        idx == {i \in 1..(Len(c) - 1) :
                   /\ c[i].VehicleId = c[i + 1].VehicleId
                   /\ c[i].stopname = from
                   /\ c[i + 1].stopname = to}
        pos == [k \in 1..Cardinality(idx) |->
                   CHOOSE i \in idx : Cardinality({j \in idx : j < i}) = k - 1]
    IN [k \in 1..Cardinality(idx) |->
           [VehicleId |-> c[pos[k]].VehicleId,
            time |-> c[pos[k]].time,
            time1 |-> c[pos[k] + 1].time,
            duration |-> c[pos[k] + 1].time - c[pos[k]].time,
            direction |-> <<from, to>>]]

\* Lines 248-270: the forward direction, with the configured column names.
Forward(table, c, start, end) ==
    OneWay(SelectStop(table, c, end, c[3]), SelectStop(table, c, start, c[4]),
           start, end)

\* Lines 273-288: the other direction, with the column names 'arrivetime' and
\* 'leavetime' written out.
Reverse(table, c, start, end) ==
    OneWay(SelectStop(table, c, start, "arrivetime"),
           SelectStop(table, c, end, "leavetime"), end, start)

\* The columns the table has.
Columns(c) == {c[k] : k \in DOMAIN c}

\* busgps_onewaytime(arrive_info, start, end, col).  ok = FALSE is the
\* KeyError of lines 273-276 for a table without the written-out columns.
OneWayTime(table, c, start, end) ==
    IF {"arrivetime", "leavetime"} \subseteq Columns(c)
    THEN LET c1 == Forward(table, c, start, end)
             c2 == Reverse(table, c, start, end)
         IN [ok |-> TRUE, start |-> start, end |-> end,
             c1 |-> c1, c2 |-> c2, onewaytime |-> c1 \o c2]
    ELSE [ok |-> FALSE, start |-> start, end |-> end,
          c1 |-> <<>>, c2 |-> <<>>, onewaytime |-> <<>>]

\* One call of busgps_onewaytime on the table.
BusgpsOnewaytime(start, end) ==
    /\ onewaytime = <<>>
    /\ onewaytime' = <<OneWayTime(arrive_info, col, start, end)>>
    /\ UNCHANGED <<arrive_info, col>>

InitTrip ==
    /\ col \in Cols
    /\ \E n \in 0..MaxRows :
           arrive_info \in {Frame(col, evs) : evs \in EventLists(n)}
    /\ onewaytime = <<>>
    /\ IdleMerge /\ IdleMatch /\ IdleRun

NextTrip ==
    \E start \in StopNames, end \in StopNames :
        BusgpsOnewaytime(start, end) /\ UNCHANGED <<mergeVars, matchVars, runVars>>

SpecTrip == InitTrip /\ [][NextTrip]_vars

(***************************************************************************)
(* Trajectory matching, busgps_arriveinfo lines 100-140.                   *)
(***************************************************************************)

Abs(x) == IF x < 0 THEN -x ELSE x
Sign(x) == IF x < 0 THEN -1 ELSE IF x > 0 THEN 1 ELSE 0

\* The route (lineshp, line 102) in the projected plane: the L-shaped path
\* (0,0) -> (4,0) -> (4,3).  The fixes lie on the corners of the rectangle
\* it spans, whose mutual distances are whole numbers (3, 4, 5).
RouteCorner == <<4, 0>>
RouteEnd == <<4, 3>>
Points == {<<0, 0>>, <<4, 0>>, <<4, 3>>, <<0, 3>>}

Clamp(x, lo, hi) == IF x < lo THEN lo ELSE IF x > hi THEN hi ELSE x

\* lineshp.project(point): the distance along the route of the route point
\* nearest to the point (the first leg wins a tie).
LineProject(pt) ==
    LET c1 == Clamp(pt[1], 0, RouteCorner[1])
        d1 == (pt[1] - c1) * (pt[1] - c1) + pt[2] * pt[2]
        c2 == Clamp(pt[2], 0, RouteEnd[2])
        d2 == (pt[1] - RouteCorner[1]) * (pt[1] - RouteCorner[1])
                  + (pt[2] - c2) * (pt[2] - c2)
    IN IF d1 <= d2 THEN c1 ELSE RouteCorner[1] + c2

\* geometry.distance(other): the planar distance of two points.
Distance(p, q) ==
    LET sq == (p[1] - q[1]) * (p[1] - q[1]) + (p[2] - q[2]) * (p[2] - q[2])
    IN CHOOSE d \in 0..(RouteCorner[1] + RouteEnd[2]) : d * d = sq

\* The cleaned fixes (line 97), in any order: n rows whose timestamps are
\* 1..n in some order (no two fixes share a timestamp).
FixTablesOf(n) ==
    {[i \in 1..n |-> [VehicleId |-> f[1][i], GPSDateTime |-> f[2][i],
                      geometry |-> f[3][i]]] :
        f \in [1..n -> Vehicles] \X Permutations(1..n) \X [1..n -> Points]}

\* data[VehicleId].drop_duplicates(): the vehicles in order of first appearance.
RECURSIVE DropDuplicates(_)
DropDuplicates(ids) ==
    IF ids = <<>> THEN <<>>
    ELSE LET init == DropDuplicates(SubSeq(ids, 1, Len(ids) - 1))
             last == ids[Len(ids)]
         IN IF \E i \in DOMAIN init : init[i] = last THEN init
            ELSE Append(init, last)

VehicleIdsOf(d) == DropDuplicates([i \in DOMAIN d |-> d[i].VehicleId])

\* sort_values(by=[VehicleId, GPSDateTime]) of one vehicle's rows (stable).
SortByTime(tmp) ==
    LET rank(i) == Cardinality({j \in DOMAIN tmp :
                        \/ tmp[j].GPSDateTime < tmp[i].GPSDateTime
                        \/ tmp[j].GPSDateTime = tmp[i].GPSDateTime /\ j < i})
    IN [p \in DOMAIN tmp |-> tmp[CHOOSE i \in DOMAIN tmp : rank(i) = p - 1]]

\* Mutant of DislimitStep: the raw projection of the previous fix is carried
\* instead of its corrected position.
DislimitStepRawCarry(proj, prev, next) ==
    LET raw0 == LineProject(prev)
        dis == Distance(next, prev)
        proj2 == LineProject(next)
    IN IF dis = 0 THEN raw0
       ELSE IF Abs(proj2 - raw0) > dis THEN Sign(proj2 - raw0) * dis + raw0
       ELSE proj2

\* Lines 128-137: the position of fix i+1 from the position proj of fix i.
DislimitStep(proj, prev, next) ==
    LET dis == Distance(next, prev)
        proj2 == LineProject(next)
    IN IF dis = 0 THEN proj
       ELSE IF Abs(proj2 - proj) > dis THEN Sign(proj2 - proj) * dis + proj
       ELSE proj2

\* Lines 117-138: one vehicle's rows, sorted, with their 'project' column.
\* The column starts as 0 and the loop body runs len(tmp)-1 times, so a
\* vehicle's only fix keeps 0.
DislimitVehicle(tmp0) ==
    LET tmp == SortByTime(tmp0)
        proj[i \in DOMAIN tmp] ==
            IF i = 1
            THEN IF Len(tmp) > 1 THEN LineProject(tmp[1].geometry) ELSE 0
            ELSE DislimitStep(proj[i - 1], tmp[i - 1].geometry, tmp[i].geometry)
    IN [i \in DOMAIN tmp |->
           [VehicleId |-> tmp[i].VehicleId, GPSDateTime |-> tmp[i].GPSDateTime,
            geometry |-> tmp[i].geometry, project |-> proj[i]]]

RECURSIVE ConcatAll(_)
ConcatAll(ss) == IF ss = <<>> THEN <<>> ELSE ss[1] \o ConcatAll(Tail(ss))

\* Lines 113-140: method 'dislimit'.
MatchDislimit(d) ==
    LET vids == VehicleIdsOf(d)
    IN ConcatAll([k \in DOMAIN vids |->
           DislimitVehicle(SelectSeq(d, LAMBDA r : r.VehicleId = vids[k]))])

\* Line 111: method 'project'.
MatchProject(d) ==
    [i \in DOMAIN d |->
        [VehicleId |-> d[i].VehicleId, GPSDateTime |-> d[i].GPSDateTime,
         geometry |-> d[i].geometry, project |-> LineProject(d[i].geometry)]]

\* Position matching with method 'project'.
PositionMatchingProject ==
    /\ project = <<>>
    /\ project' = <<[method |-> "project", rows |-> MatchProject(data)]>>
    /\ UNCHANGED data

\* Position matching with method 'dislimit'.
PositionMatchingDislimit ==
    /\ project = <<>>
    /\ project' = <<[method |-> "dislimit", rows |-> MatchDislimit(data)]>>
    /\ UNCHANGED data

InitMatch ==
    /\ \E n \in 0..MaxFixes : data \in FixTablesOf(n)
    /\ project = <<>>
    /\ IdleMerge /\ IdleTrip /\ IdleRun

NextMatch ==
    \/ PositionMatchingProject /\ UNCHANGED <<mergeVars, tripVars, runVars>>
    \/ PositionMatchingDislimit /\ UNCHANGED <<mergeVars, tripVars, runVars>>

SpecMatch == InitMatch /\ [][NextMatch]_vars

(***************************************************************************)
(* Claims about the trajectory matching (SpecMatch).                       *)
(***************************************************************************)

\* The rows of vehicle v in a table, in the table's order.
RowsOf(t, v) == SelectSeq(t, LAMBDA r : r.VehicleId = v)

\* The rows of t as a bag: row |-> number of occurrences.
Count(t, r) == Cardinality({i \in DOMAIN t : t[i] = r})

Fix(r) == [VehicleId |-> r.VehicleId, GPSDateTime |-> r.GPSDateTime,
           geometry |-> r.geometry]

\* C7: with method 'dislimit', for every vehicle with two or more fixes, taken
\* in time order: the first position is the nearest projection of the first
\* fix; each next position is the previous (corrected) position when the
\* planar distance d to the previous fix is 0, the raw projection p2 when
\* |p2 - previous| <= d, and previous + sign(p2 - previous) * d otherwise, so
\* that consecutive positions differ by at most d; and the positions of a
\* vehicle are determined by its own fixes alone.
C7_DislimitPositions ==
    \A m \in Range(project) :
        m.method = "dislimit" =>
            \A v \in Vehicles :
                LET out == RowsOf(m.rows, v)
                    in == RowsOf(data, v)
                IN /\ Len(out) = Len(in)
                   /\ \A r \in Range(in) :
                          Count([i \in DOMAIN out |-> Fix(out[i])], r) = Count(in, r)
                   /\ \A i \in 1..(Len(out) - 1) :
                          out[i].GPSDateTime <= out[i + 1].GPSDateTime
                   /\ Len(out) >= 2 => out[1].project = LineProject(out[1].geometry)
                   /\ \A i \in 1..(Len(out) - 1) :
                          LET d == Distance(out[i + 1].geometry, out[i].geometry)
                              p2 == LineProject(out[i + 1].geometry)
                              prev == out[i].project
                              next == out[i + 1].project
                          IN /\ Abs(next - prev) <= d
                             /\ d = 0 => next = prev
                             /\ (d # 0 /\ Abs(p2 - prev) <= d) => next = p2
                             /\ Abs(p2 - prev) > d =>
                                    next = prev + Sign(p2 - prev) * d

\* C7's case: a vehicle's second position was clamped (it is not that fix's
\* raw projection), and its third position was computed from the clamped one.
C7_Witness ==
    \E m \in Range(project) :
        /\ m.method = "dislimit"
        /\ \E v \in Vehicles :
               LET out == RowsOf(m.rows, v)
               IN /\ Len(out) >= 3
                  /\ out[1].GPSDateTime < out[2].GPSDateTime
                  /\ out[2].GPSDateTime < out[3].GPSDateTime
                  /\ out[2].project # LineProject(out[2].geometry)
                  /\ out[3].project # out[2].project
                  /\ out[3].project # LineProject(out[3].geometry)

\* Two vehicles' fixes interleaved in the input, one of them clamped.
InterleavedVehicles ==
    \E m \in Range(project) :
        /\ m.method = "dislimit"
        /\ Len(data) = 3 /\ data[1].VehicleId = data[3].VehicleId
        /\ data[2].VehicleId # data[1].VehicleId
        /\ \E i \in DOMAIN m.rows :
               m.rows[i].project # LineProject(m.rows[i].geometry)

(***************************************************************************)
(* Claims about the trip aggregation (SpecTrip).                           *)
(***************************************************************************)

\* The calls made so far (at most one).
Calls == {onewaytime[i] : i \in DOMAIN onewaytime}

\* Departure times of vehicle v from stop s, and arrival times at stop s, as
\* the table holds them in the configured columns.
Departures(v, s) ==
    {r[col[4]] : r \in {x \in Range(arrive_info) : x[col[1]] = v /\ x[col[2]] = s}}
Arrivals(v, s) ==
    {r[col[3]] : r \in {x \in Range(arrive_info) : x[col[1]] = v /\ x[col[2]] = s}}

\* The pairs the adjacency rule admits for one direction: a departure of v
\* from `from` at t0 and the first later arrival of v at `to` at t1, with no
\* departure of v from `from` strictly between them.  (An arrival at t0 itself
\* precedes the departure in the stream; a departure at t1 follows the arrival.)
AdjacentPairs(from, to) ==
    {p \in Vehicles \X Stamps \X Stamps :
        /\ p[2] \in Departures(p[1], from)
        /\ p[3] \in Arrivals(p[1], to)
        /\ p[2] < p[3]
        /\ \A t \in Arrivals(p[1], to) : ~(p[2] < t /\ t < p[3])
        /\ \A t \in Departures(p[1], from) : ~(p[2] < t /\ t < p[3])}

\* The trips of one direction are exactly the adjacent pairs, each once.
TripsAre(trips, from, to) ==
    /\ {<<t.VehicleId, t.time, t.time1>> : t \in Range(trips)} = AdjacentPairs(from, to)
    /\ Cardinality(AdjacentPairs(from, to)) = Len(trips)
    /\ \A t \in Range(trips) :
           t.duration = t.time1 - t.time /\ t.direction = <<from, to>>

\* C1: with start # end, each direction emits a trip exactly for the
\* origin-departures whose next row in the vehicle's time-sorted restricted
\* stream is a destination-arrival of the same vehicle: no trip pairs two
\* vehicles, no restricted event lies between a trip's start and end, and a
\* vehicle with only departures or only arrivals has no trip.
C1_AdjacencyPairing ==
    \A r \in Calls :
        (r.ok /\ r.start # r.end) =>
            /\ TripsAre(r.c1, r.start, r.end)
            /\ TripsAre(r.c2, r.end, r.start)

\* C1's case: a call with start # end emitted a trip for one vehicle while
\* the other vehicle, which only departed from the origin, got none, and an
\* origin-departure of the first vehicle was not followed by an arrival.
C1_Witness ==
    \E r \in Calls :
        /\ r.ok /\ r.start # r.end /\ Len(r.c1) = 1
        /\ \E v \in Vehicles :
               /\ Departures(v, r.start) # {} /\ Arrivals(v, r.end) = {}
               /\ r.c1[1].VehicleId # v
        /\ Cardinality(Departures(r.c1[1].VehicleId, r.start)) >= 2

C5_NoSharedStart ==
    \A r \in Calls :
        \A i \in DOMAIN r.onewaytime : \A j \in DOMAIN r.onewaytime :
            (i # j /\ r.onewaytime[i].VehicleId = r.onewaytime[j].VehicleId)
                => r.onewaytime[i].time # r.onewaytime[j].time

NoSharedStartIn(trips) ==
    \A i \in DOMAIN trips : \A j \in DOMAIN trips :
        (i # j /\ trips[i].VehicleId = trips[j].VehicleId)
            => trips[i].time # trips[j].time

\* C5 amended: when start # end, within the trips of one direction no
\* vehicle has two trips with the same start time.
C5_NoSharedStartPerDirection ==
    \A r \in Calls :
        r.start # r.end => NoSharedStartIn(r.c1) /\ NoSharedStartIn(r.c2)

\* C5's case: a call with start # end in which a vehicle has a forward trip
\* and a reverse trip that start at the same time.
C5_Witness ==
    \E r \in Calls :
        /\ r.ok /\ r.start # r.end
        /\ \E t1 \in Range(r.c1) : \E t2 \in Range(r.c2) :
               t1.VehicleId = t2.VehicleId /\ t1.time = t2.time

\* C10: the reverse direction mirrors the forward direction for every col:
\* the call returns, and its reverse-direction trips are the forward-direction
\* trips of the call with start and end swapped.
C10_ReverseMirrorsForward ==
    \A r \in Calls :
        /\ r.ok
        /\ r.c2 = Forward(arrive_info, col, r.end, r.start)

\* What does hold (not a claim of its own): with the default col the reverse
\* direction is the forward direction of the swapped call.
ReverseMirrorsForwardDefaultCol ==
    \A r \in Calls :
        col = DefaultCol =>
            r.ok /\ r.c2 = OneWayTime(arrive_info, col, r.end, r.start).c1

(***************************************************************************)
(* Claims about the dwell merge (SpecMerge).                               *)
(***************************************************************************)

\* The reference interval merge: maximal runs of raw visits whose gaps
\* a[k+1] - d[k] are all < mt, one event per run, first arrival to last
\* departure.
RECURSIVE RefMergeFrom(_, _, _, _)
RefMergeFrom(v, k, cur, mt) ==
    IF k > Len(v) THEN <<cur>>
    ELSE IF v[k].arrivetime - cur.leavetime < mt
         THEN RefMergeFrom(v, k + 1,
                  [arrivetime |-> cur.arrivetime, leavetime |-> v[k].leavetime], mt)
         ELSE <<cur>> \o RefMergeFrom(v, k + 1, v[k], mt)

RefMerge(v, mt) == IF v = <<>> THEN <<>> ELSE RefMergeFrom(v, 2, v[1], mt)

\* The sort put every arrival before the departure of equal time.
ArrivalsFirst ==
    \A i \in 1..Len(order) : \A j \in 1..Len(order) :
        (i < j /\ ConcatAB(raw)[order[i]].time = ConcatAB(raw)[order[j]].time)
            => order[i] < order[j]

\* C2: the dwell-merge step equals the reference interval merge: one event
\* per maximal run of raw visits with gaps below mintime, from the run's
\* first arrival to its last departure, whenever the step returns.
C2_MergeIsIntervalMerge ==
    \A mt \in DOMAIN merged :
        merged[mt].ok => merged[mt].arrive_new = RefMerge(raw, mt)

\* What does hold of the merge (not a claim of its own): with every tie sorted
\* arrival first, the step returns the reference interval merge.
MergeIsIntervalMergeArrivalsFirst ==
    ArrivalsFirst =>
        \A mt \in DOMAIN merged :
            merged[mt].ok /\ merged[mt].arrive_new = RefMerge(raw, mt)

\* A chain of consecutive short gaps collapsed into one event.
ChainCollapsed ==
    \E mt \in DOMAIN merged :
        /\ Len(raw) >= 3 /\ merged[mt].ok
        /\ Len(merged[mt].arrive_new) = 1

\* C3: every returned dwell event has arrivetime <= leavetime, and the events
\* of one (vehicle, stop) are in time order and pairwise non-overlapping
\* (an event ends no later than the next one starts), after the positional
\* pairing and the truncation to whole seconds.
C3_DwellOrdering ==
    \A mt \in DOMAIN merged :
        LET ev == merged[mt].arrive_info
        IN /\ \A i \in DOMAIN ev : ev[i].arrivetime <= ev[i].leavetime
           /\ \A i \in DOMAIN ev : \A j \in DOMAIN ev :
                  i < j => ev[i].leavetime <= ev[j].arrivetime

\* C3's case: a run returned two or more events from raw visits that include
\* an instantaneous one, and truncation changed a time.
C3_Witness ==
    \E mt \in DOMAIN merged :
        /\ merged[mt].ok
        /\ Len(merged[mt].arrive_info) >= 2
        /\ \E k \in DOMAIN raw : raw[k].arrivetime = raw[k].leavetime
        /\ \E i \in DOMAIN merged[mt].arrive_new :
               merged[mt].arrive_new[i].leavetime
                   # TicksPerSecond * merged[mt].arrive_info[i].leavetime

\* C6: merge monotonicity: for thresholds m1 < m2 on the same raw visits,
\* whenever the run with m2 returns, the run with m1 returned too and the run
\* with m2 produced no more dwell events than the run with m1.
C6_MergeMonotone ==
    \A m1 \in DOMAIN merged : \A m2 \in DOMAIN merged :
        (m1 < m2 /\ merged[m2].ok) =>
            /\ merged[m1].ok
            /\ Len(merged[m2].arrive_info) <= Len(merged[m1].arrive_info)

\* C6's case: two thresholds ran on the same visits and the larger one
\* produced strictly fewer (but some) events.
C6_Witness ==
    \E m1 \in DOMAIN merged : \E m2 \in DOMAIN merged :
        /\ m1 < m2 /\ merged[m1].ok /\ merged[m2].ok
        /\ Len(merged[m2].arrive_info) >= 1
        /\ Len(merged[m2].arrive_info) < Len(merged[m1].arrive_info)

(***************************************************************************)
(* One call of busgps_arriveinfo, lines 84-216.                            *)
(***************************************************************************)

\* The values of method the docstring allows (lines 72-75), and another one.
SupportedMethods == {"project", "dislimit"}
Methods == SupportedMethods \cup {"nearest"}

\* The raw visits of one (vehicle, stop) in a run: none, or one visit.
RunVisits ==
    {<<>>} \cup {v \in VisitsFrom(1, 0) : v[1].leavetime <= MaxRunTick}

\* The vehicles of the data in order of first appearance (line 153); a
\* vehicle without a fix is not in the data.
RECURSIVE CarsFrom(_, _)
CarsFrom(f, v) ==
    IF v \notin DOMAIN f THEN <<>>
    ELSE (IF f[v] > 0 THEN <<v>> ELSE <<>>) \o CarsFrom(f, v + 1)

\* A (vehicle, stop) pair is sparse: fewer than 2 fixes (line 157), or the
\* trajectory never enters the stop's corridor (line 169).
Sparse(car, stop) == fixes[car] < 2 \/ visits[<<car, stop>>] = <<>>

\* Lines 84-98: the columns are unpacked and the data is cleaned.  The method
\* argument is not looked at.
CleanData ==
    /\ pc = "start"
    /\ pc' = "cleaned"
    /\ UNCHANGED <<method, hasproject, fixes, visits, mintime, todo, ls, outcome>>

\* Lines 100-149: the 'project' column is written by the branch of 'project'
\* (line 111) or of 'dislimit' (lines 113-140); no branch runs for any other
\* method, and the data keeps the columns it came with.
PositionMatching ==
    /\ pc = "cleaned"
    /\ pc' = "matched"
    /\ hasproject' = (hasproject \/ method \in SupportedMethods)
    /\ todo' = CarsFrom(fixes, 1)
    /\ UNCHANGED <<method, fixes, visits, mintime, ls, outcome>>

\* The frames one vehicle appends to ls, stop by stop (lines 158-204):
\* [ok, frames], ok = FALSE when the merge of some stop raised.
RECURSIVE CarFrames(_, _, _)
CarFrames(car, k, ords) ==
    IF k > Len(Stops) THEN [ok |-> TRUE, frames |-> <<>>]
    ELSE LET stop == Stops[k]
             arrive == visits[<<car, stop>>]
             rest == CarFrames(car, k + 1, ords)
         IN IF arrive = <<>> THEN rest
            ELSE LET r == DwellMerge(arrive, mintime, ords[stop])
                 IN IF ~r.ok THEN [ok |-> FALSE, frames |-> <<>>]
                    ELSE [ok |-> rest.ok,
                          frames |-> <<[VehicleId |-> car, stopname |-> stop,
                                        rows |-> r.arrive_new]>> \o rest.frames]

\* Lines 153-204: one iteration of the loop over the vehicles.  A vehicle
\* with one fix is skipped; building the trajectory of line 166 from the
\* columns ['time_st', 'project'] raises KeyError without a 'project' column.
MatchCar ==
    /\ pc = "matched" /\ todo # <<>>
    /\ LET car == Head(todo)
       IN IF fixes[car] <= 1
          THEN /\ todo' = Tail(todo)
               /\ UNCHANGED <<pc, ls, outcome>>
          ELSE IF ~hasproject
          THEN /\ pc' = "raised"
               /\ outcome' = [status |-> "KeyError", arrive_info |-> <<>>]
               /\ UNCHANGED <<todo, ls>>
          ELSE \E ords \in [StopNames -> UNION {SortValuesByTime(ConcatAB(v)) : v \in RunVisits}] :
                  /\ \A sn \in StopNames :
                         ords[sn] \in SortValuesByTime(ConcatAB(visits[<<car, sn>>]))
                  /\ LET r == CarFrames(car, 1, ords)
                     IN IF r.ok
                        THEN /\ ls' = ls \o r.frames
                             /\ todo' = Tail(todo)
                             /\ UNCHANGED <<pc, outcome>>
                        ELSE /\ pc' = "raised"
                             /\ outcome' = [status |-> "ValueError", arrive_info |-> <<>>]
                             /\ UNCHANGED <<todo, ls>>
    /\ UNCHANGED <<method, hasproject, fixes, visits, mintime>>

\* The rows of the frames of ls, each with its vehicle and stop.
RECURSIVE ConcatFrames(_)
ConcatFrames(frames) ==
    IF frames = <<>> THEN <<>>
    ELSE LET f == frames[1]
             rows == Timestamps(f.rows)
         IN [i \in DOMAIN rows |->
                [VehicleId |-> f.VehicleId, stopname |-> f.stopname,
                 arrivetime |-> rows[i].arrivetime,
                 leavetime |-> rows[i].leavetime]]
            \o ConcatFrames(Tail(frames))

\* Lines 206-216: pd.concat(ls) raises ValueError ("No objects to
\* concatenate") on an empty list; otherwise the table is returned.
ConcatData ==
    /\ pc = "matched" /\ todo = <<>>
    /\ IF ls = <<>>
       THEN /\ pc' = "raised"
            /\ outcome' = [status |-> "ValueError", arrive_info |-> <<>>]
       ELSE /\ pc' = "done"
            /\ outcome' = [status |-> "returned", arrive_info |-> ConcatFrames(ls)]
    /\ UNCHANGED <<method, hasproject, fixes, visits, mintime, todo, ls>>

InitRun ==
    /\ method \in Methods
    /\ hasproject \in BOOLEAN
    /\ fixes \in [Vehicles -> 0..2]
    /\ \E v \in Vehicles : fixes[v] > 0
    /\ visits \in [Vehicles \X StopNames -> RunVisits]
    /\ \A cs \in Vehicles \X StopNames : fixes[cs[1]] < 2 => visits[cs] = <<>>
    /\ mintime \in {0, MaxMintime}
    /\ pc = "start" /\ todo = <<>> /\ ls = <<>>
    /\ outcome = [status |-> "none", arrive_info |-> <<>>]
    /\ IdleMerge /\ IdleTrip /\ IdleMatch

NextRun ==
    \/ CleanData /\ UNCHANGED <<mergeVars, tripVars, matchVars>>
    \/ PositionMatching /\ UNCHANGED <<mergeVars, tripVars, matchVars>>
    \/ MatchCar /\ UNCHANGED <<mergeVars, tripVars, matchVars>>
    \/ ConcatData /\ UNCHANGED <<mergeVars, tripVars, matchVars>>

SpecRun == InitRun /\ [][NextRun]_vars

(***************************************************************************)
(* Claims about a call of busgps_arriveinfo (SpecRun).                     *)
(***************************************************************************)

\* C8: data sparsity is never an error: a vehicle with fewer than 2 fixes and
\* a (vehicle, stop) pair that never enters the corridor contribute no rows,
\* and a run (with a supported method) in which every pair is sparse does not
\* raise: it returns an empty table.
C8_SparsityNeverRaises ==
    method \in SupportedMethods =>
        /\ \A f \in Range(ls) : ~Sparse(f.VehicleId, f.stopname)
        /\ (\A cs \in Vehicles \X StopNames : Sparse(cs[1], cs[2])) =>
               pc # "raised"

\* C9: an unsupported method is surfaced before any processing step has run
\* (the call raises at its start: no cleaning, no matching, no dwell
\* detection), and no result is returned.
C9_UnsupportedMethodRaisesFirst ==
    method \notin SupportedMethods =>
        /\ pc \in {"start", "raised"}
        /\ outcome.status # "returned"

\* What the code does with an unsupported method when the data came with a
\* 'project' column of its own: it returns a table.
UnsupportedMethodReturns ==
    method \notin SupportedMethods /\ outcome.status = "returned"

====
